---- MODULE Spec2Model ----
(***************************************************************************)
(* A model of the HVPS controller: the protocol client (HVPSv3), the       *)
(* scripted acceptance test window (HVPSTestWindow) and the transport      *)
(* lock discipline of send_query.                                          *)
(*                                                                         *)
(* Every GUI handler runs to completion on the Qt GUI thread, so one       *)
(* handler is one action.  A handler is written as a function from a       *)
(* "world" record (the window's attributes, the device, the lines given to  *)
(* sendall during the handler, the pending Python exception) to a          *)
(* world record, statement by statement; a statement is skipped once an    *)
(* exception is pending, as Python skips the rest of the handler.          *)
(***************************************************************************)
EXTENDS Integers, Sequences, FiniteSets, TLC

(***************************************************************************)
(* Program constants                                                       *)
(***************************************************************************)
all_channels == <<"BM", "EX", "L1", "L2", "L3", "L4", "SL">>

Channels == {all_channels[k] : k \in 1..Len(all_channels)}

\* HVPSv3 is always built as HVPSv3(self.sock): the default tuple.
hvps_occupied_channels == all_channels

test_voltages == <<"100", "500", "1000">>

test_currents == <<"0.3", "1.2", "2.5">>

\* buffer sizes of the window: ['unmeasured'] * 6 and ['unmeasured'] * 3
VoltageSlots == 6

CurrentSlots == 3

(***************************************************************************)
(* Bounds of the model                                                     *)
(***************************************************************************)
\* operator actions (Trigger, Record, Disable, Back) per session
MaxOps == 4

\* transport failures (socket errors) per session
MaxFaults == 1

\* the lists of installed channels a session is opened with
InstalledLists ==
    { <<>>, <<"SL">>, <<"BM", "SL">>, <<"L2", "EX">> }

\* the texts the operator types into a measurement entry
MeasurementTexts == {"99.9", "101.2"}

\* the test buttons the operator presses: +100 V, +500 V, -100 V in a voltage
\* stage, 0.3 A and 1.2 A in the SL stage
PressedButtons == {1, 2, 4}

(***************************************************************************)
(* Strings (Python str operations used by the client)                      *)
(***************************************************************************)
InSeq(x, s) == \E k \in 1..Len(s) : s[k] = x

Repeat(x, n) == [k \in 1..n |-> x]

CharAt(s, k) == SubSeq(s, k, k)

\* ch in s
HasChar(s, ch) == \E k \in 1..Len(s) : CharAt(s, k) = ch

\* s.replace(ch, '')
RECURSIVE RemoveChar(_, _)
RemoveChar(s, ch) ==
    IF Len(s) = 0 THEN ""
    ELSE IF CharAt(s, 1) = ch THEN RemoveChar(SubSeq(s, 2, Len(s)), ch)
    ELSE CharAt(s, 1) \o RemoveChar(SubSeq(s, 2, Len(s)), ch)

RECURSIVE Zeros(_)
Zeros(n) == IF n <= 0 THEN "" ELSE "0" \o Zeros(n - 1)

\* a variant that pads to one character less
zfill_short(s, width) ==
    IF Len(s) >= width - 1 THEN s ELSE Zeros(width - 1 - Len(s)) \o s

\* s.zfill(width): zeros go after a leading sign
zfill(s, width) ==
    IF Len(s) >= width THEN s
    ELSE IF Len(s) > 0 /\ CharAt(s, 1) \in {"+", "-"}
         THEN CharAt(s, 1) \o Zeros(width - Len(s)) \o SubSeq(s, 2, Len(s))
         ELSE Zeros(width - Len(s)) \o s

\* s.endswith('\n')
EndsWithNewline(s) == Len(s) > 0 /\ CharAt(s, Len(s)) = "\n"

\* s.strip() of a response: the trailing newline goes
strip(s) == IF EndsWithNewline(s) THEN SubSeq(s, 1, Len(s) - 1) ELSE s

\* position of the first '.' of s, 0 when there is none
RECURSIVE DotAt(_, _)
DotAt(s, k) ==
    IF k > Len(s) THEN 0 ELSE IF CharAt(s, k) = "." THEN k ELSE DotAt(s, k + 1)

RECURSIVE StripLeadingZeros(_)
StripLeadingZeros(s) ==
    IF Len(s) > 1 /\ CharAt(s, 1) = "0" THEN StripLeadingZeros(SubSeq(s, 2, Len(s)))
    ELSE s

\* a variant that leaves the text as it was typed
Format2f_asTyped(current) == current

\* f'{float(current):.2f}' for a decimal literal with at most two decimals
Format2f(current) ==
    LET dot == DotAt(current, 1)
        ip == IF dot = 0 THEN current ELSE SubSeq(current, 1, dot - 1)
        fp == IF dot = 0 THEN "" ELSE SubSeq(current, dot + 1, Len(current))
        int == IF ip = "" THEN "0" ELSE StripLeadingZeros(ip)
    IN  int \o "." \o SubSeq(fp \o "00", 1, 2)

\* s.strip(chars): the characters of the set go from both ends
RECURSIVE LStripChars(_, _)
LStripChars(s, chars) ==
    IF Len(s) > 0 /\ CharAt(s, 1) \in chars
    THEN LStripChars(SubSeq(s, 2, Len(s)), chars) ELSE s

RECURSIVE RStripChars(_, _)
RStripChars(s, chars) ==
    IF Len(s) > 0 /\ CharAt(s, Len(s)) \in chars
    THEN RStripChars(SubSeq(s, 1, Len(s) - 1), chars) ELSE s

StripChars(s, chars) == RStripChars(LStripChars(s, chars), chars)

DecimalDigits == {"0", "1", "2", "3", "4", "5", "6", "7", "8", "9"}

\* the text without its leading sign
Unsigned(s) ==
    IF Len(s) > 0 /\ CharAt(s, 1) \in {"+", "-"} THEN SubSeq(s, 2, Len(s)) ELSE s

\* int(s) does not raise: an optional sign and digits
IsInt(s) ==
    LET u == Unsigned(s)
    IN  Len(u) > 0 /\ \A k \in 1..Len(u) : CharAt(u, k) \in DecimalDigits

\* float(s) does not raise: an optional sign, digits, at most one point
IsFloat(s) ==
    LET u == Unsigned(s)
    IN  /\ \E k \in 1..Len(u) : CharAt(u, k) \in DecimalDigits
        /\ \A k \in 1..Len(u) : CharAt(u, k) \in DecimalDigits \cup {"."}
        /\ \A j, k \in 1..Len(u) :
              (CharAt(u, j) = "." /\ CharAt(u, k) = ".") => j = k

(***************************************************************************)
(* The device: obeys every command of the wire protocol, or answers every  *)
(* request with the NAK code it is stuck at                                *)
(***************************************************************************)
ZeroVoltage == "+00000"

ZeroCurrent == "000.00"

StateString(hv, sol) ==
    "STATE00" \o (IF sol THEN "1" ELSE "0") \o (IF hv THEN "1" ELSE "0")

\* the device's reaction to one request line: its new state and its response
Device(dev, line) ==
    LET cmd == strip(line) IN
    IF dev.nak # "" THEN [dev |-> dev, resp |-> dev.nak \o "\n"]
    ELSE IF cmd = "STHV1" THEN [dev |-> [dev EXCEPT !.hv = TRUE], resp |-> "ACK\n"]
    ELSE IF cmd = "STHV0" THEN [dev |-> [dev EXCEPT !.hv = FALSE], resp |-> "ACK\n"]
    ELSE IF cmd = "STSL1" THEN [dev |-> [dev EXCEPT !.sol = TRUE], resp |-> "ACK\n"]
    ELSE IF cmd = "STSL0" THEN [dev |-> [dev EXCEPT !.sol = FALSE], resp |-> "ACK\n"]
    ELSE IF cmd = "RDSTA" THEN [dev |-> dev, resp |-> StateString(dev.hv, dev.sol) \o "\n"]
    ELSE IF Len(cmd) = 5 /\ SubSeq(cmd, 1, 2) = "RD" /\ SubSeq(cmd, 3, 4) \in Channels
         THEN [dev |-> dev, resp |-> dev.target[SubSeq(cmd, 3, 4)] \o "\n"]
    ELSE IF Len(cmd) > 5 /\ SubSeq(cmd, 1, 2) = "ST" /\ SubSeq(cmd, 3, 4) \in Channels
            /\ CharAt(cmd, 5) = "T"
         THEN [dev |-> [dev EXCEPT !.target[SubSeq(cmd, 3, 4)] = SubSeq(cmd, 6, Len(cmd))],
               resp |-> "ACK\n"]
    ELSE IF Len(cmd) > 5 /\ SubSeq(cmd, 1, 2) = "ST" /\ SubSeq(cmd, 3, 4) \in Channels
            /\ CharAt(cmd, 5) = "W"
         THEN [dev |-> dev, resp |-> "ACK\n"]
    ELSE [dev |-> dev, resp |-> "NAK1\n"]

(***************************************************************************)
(* State                                                                   *)
(***************************************************************************)
VARIABLES
    occupied_channels,     \* HVPSTestWindow.occupied_channels
    test_stages,           \* HVPSTestWindow.test_stages, a stage named by its channel
    current_stage_index,   \* HVPSTestWindow.current_stage_index
    channel,               \* HVPSTestWindow.channel ("unset": no stage was ever loaded)
    channel_readbacks,     \* HVPSTestWindow.channel_readbacks
    channel_measurements,  \* HVPSTestWindow.channel_measurements
    readbacks,             \* HVPSTestWindow.readbacks
    measurements,          \* HVPSTestWindow.measurements
    buttons_enabled,       \* indices of the enabled test buttons of the stage
    entries_enabled,       \* indices of the enabled measurement entries of the stage
    window,                \* "open" or "closed"
    test_complete,         \* the emissions of the test_complete signal, in order
    window_closed,         \* number of emissions of the window_closed signal
    device,                \* [hv, sol, target]: the HVPS behind the socket
    test_results,          \* what MainWindow.handle_hvps_test_complete stored
    sent,                  \* the request lines given to sendall by the last handler
    last,                  \* the last handler: [op, arg, exc]
    hvps,                  \* the HVPSv3 object: [occupied_channels, sock]
    api,                   \* the last call made on the client alone, and its outcome
    lock,                  \* HVPSv3.lock: "free" or the thread that holds it
    pc,                    \* each thread's position in send_query
    request,               \* each thread's request line
    sendpos,               \* how much of the request line sendall has written
    stream,                \* what was written to the socket: [from, text] in order
    devpos,                \* how many pieces of the stream the device has read
    replies,               \* the responses waiting in the socket's receive buffer
    result,                \* what each thread's last send_query returned or raised
    calls,                 \* the calls each thread has made
    sockFaults,            \* the socket errors so far
    app,                   \* MainWindow at shutdown: worker, event queues, socket
    ops,                   \* operator actions so far
    faults                 \* transport failures so far

vars == <<occupied_channels, test_stages, current_stage_index, channel,
          channel_readbacks, channel_measurements, readbacks, measurements,
          buttons_enabled, entries_enabled, window, test_complete, window_closed,
          device, test_results, sent, last, ops, faults, hvps, api, app,
          lock, pc, request, sendpos, stream, devpos, replies, result, calls,
          sockFaults>>

sessionVars ==
    <<occupied_channels, test_stages, current_stage_index, channel,
      channel_readbacks, channel_measurements, readbacks, measurements,
      buttons_enabled, entries_enabled, window, test_complete, window_closed,
      test_results, sent, last, ops, faults, hvps, api, app>>

sockVars ==
    <<lock, pc, request, sendpos, stream, devpos, replies, result, calls,
      sockFaults>>

\* the threads that call send_query on the one HVPSv3: the GUI thread of the
\* test window's handlers and the poller of update_readings
Threads == {"gui", "poller"}

NoResult == [kind |-> "none", text |-> "", owners |-> {}]

(***************************************************************************)
(* The world a handler runs in                                             *)
(***************************************************************************)
NoFailure == <<0, "none">>

\* the world at the start of a handler; failAt = <<k, "write" | "read">> makes
\* the k-th send_query of the handler fail in sendall or in recv
World(failAt) ==
    [ occupied_channels |-> occupied_channels, test_stages |-> test_stages,
      current_stage_index |-> current_stage_index, channel |-> channel,
      channel_readbacks |-> channel_readbacks,
      channel_measurements |-> channel_measurements,
      readbacks |-> readbacks, measurements |-> measurements,
      buttons_enabled |-> buttons_enabled, entries_enabled |-> entries_enabled,
      window |-> window, test_complete |-> test_complete,
      window_closed |-> window_closed, device |-> device,
      test_results |-> test_results, connected |-> TRUE, sent |-> <<>>,
      hvps_channels |-> hvps.occupied_channels, sock |-> hvps.sock, locks |-> 0,
      queries |-> 0, resp |-> "", exc |-> "none", err |-> "", failAt |-> failAt,
      hv |-> FALSE, sol |-> FALSE ]

Ok(w) == w.exc = "none"

Raise(w, e) == IF Ok(w) THEN [w EXCEPT !.exc = e] ELSE w

\* raise e(msg): the message names the error
RaiseWith(w, e, msg) == IF Ok(w) THEN [w EXCEPT !.exc = e, !.err = msg] ELSE w

\* the messages of the client's errors
NotConnected == "Socket is not connected"

InvalidChannel == "is not a valid channel"

InvalidOperation == "is not a valid channel for setting voltage"

SocketError == "Socket communication error"

(***************************************************************************)
(* HVPSv3: the protocol client                                             *)
(***************************************************************************)
\* a variant that sends the request again after a socket error
send_query_retry(w, query) ==
    IF ~Ok(w) THEN w
    ELSE IF ~w.sock THEN RaiseWith(w, "ConnectionError", NotConnected)
    ELSE
        LET line == IF EndsWithNewline(query) THEN query ELSE query \o "\n"
            k == w.queries + 1
            d == Device(w.device, line)
        IN  IF w.failAt[1] = k
            THEN [w EXCEPT !.queries = k, !.locks = @ + 1,
                           !.sent = Append(Append(@, line), line),
                           !.device = d.dev, !.resp = strip(d.resp)]
            ELSE [w EXCEPT !.queries = k, !.locks = @ + 1,
                           !.sent = Append(@, line),
                           !.device = d.dev, !.resp = strip(d.resp)]

\* send_query with the lock taken and released inside the call: one
\* request/response transaction, or ConnectionError
send_query(w, query) ==
    IF ~Ok(w) THEN w
    ELSE IF ~w.sock THEN RaiseWith(w, "ConnectionError", NotConnected)
    ELSE
        LET line == IF EndsWithNewline(query) THEN query ELSE query \o "\n"
            k == w.queries + 1
            d == Device(w.device, line)
        IN  IF w.failAt = <<k, "write">>
            THEN [w EXCEPT !.queries = k, !.locks = @ + 1,
                           !.sent = Append(@, line),
                           !.exc = "ConnectionError", !.err = SocketError]
            ELSE IF w.failAt = <<k, "read">>
            THEN [w EXCEPT !.queries = k, !.locks = @ + 1,
                           !.sent = Append(@, line), !.device = d.dev,
                           !.exc = "ConnectionError", !.err = SocketError]
            ELSE [w EXCEPT !.queries = k, !.locks = @ + 1,
                           !.sent = Append(@, line),
                           !.device = d.dev, !.resp = strip(d.resp)]

set_solenoid_current(w, current) ==
    IF ~Ok(w) THEN w
    ELSE IF ~InSeq("SL", w.hvps_channels) THEN w
    ELSE LET c == IF current = "" THEN "0" ELSE current
         IN  send_query(w, "STSLT00" \o Format2f(c))

\* a variant without the test for the solenoid channel
set_voltage_noSLTest(w, ch, voltage) ==
    IF ~Ok(w) THEN w
    ELSE IF ~InSeq(ch, w.hvps_channels)
    THEN RaiseWith(w, "ValueError", InvalidChannel)
    ELSE
        LET v0 == IF voltage = "" THEN "0" ELSE voltage
            sign == IF HasChar(v0, "-") THEN "-" ELSE "+"
            v1 == RemoveChar(v0, sign)
        IN  send_query(w, "ST" \o ch \o "T" \o sign \o zfill(v1, 5))

set_voltage(w, ch, voltage) ==
    IF ~Ok(w) THEN w
    ELSE IF ch = "unset" THEN Raise(w, "AttributeError")
    ELSE IF ~InSeq(ch, w.hvps_channels)
    THEN RaiseWith(w, "ValueError", InvalidChannel)
    ELSE IF ch = "SL" THEN RaiseWith(w, "ValueError", InvalidOperation)
    ELSE
        LET v0 == IF voltage = "" THEN "0" ELSE voltage
            sign == IF HasChar(v0, "-") THEN "-" ELSE "+"
            v1 == RemoveChar(v0, sign)
        IN  send_query(w, "ST" \o ch \o "T" \o sign \o zfill(v1, 5))

get_voltage(w, ch) ==
    IF ~Ok(w) THEN w
    ELSE IF ~InSeq(ch, w.hvps_channels)
    THEN RaiseWith(w, "ValueError", InvalidChannel)
    ELSE send_query(w, "RD" \o ch \o "V")

\* a variant that queries without looking at the installed channels
get_current_unchecked(w, ch) == send_query(w, "RD" \o ch \o "C")

get_current(w, ch) ==
    IF ~Ok(w) THEN w
    ELSE IF ~InSeq(ch, w.hvps_channels)
    THEN RaiseWith(w, "ValueError", InvalidChannel)
    ELSE send_query(w, "RD" \o ch \o "C")

enable_high_voltage(w) == send_query(w, "STHV1")

disable_high_voltage(w) == send_query(w, "STHV0")

enable_solenoid_current(w) == send_query(w, "STSL1")

disable_solenoid_current(w) == send_query(w, "STSL0")

\* valid_channels is built for the message only: the test is on occupied_channels
enable_wobble(w, ch, amplitude) ==
    IF ~Ok(w) THEN w
    ELSE IF ~InSeq(ch, w.hvps_channels)
    THEN RaiseWith(w, "ValueError", InvalidChannel)
    ELSE send_query(w, "ST" \o ch \o "WE1A" \o zfill(amplitude, 3))

disable_wobble(w, ch) ==
    IF ~Ok(w) THEN w
    ELSE IF ~InSeq(ch, w.hvps_channels)
    THEN RaiseWith(w, "ValueError", InvalidChannel)
    ELSE send_query(w, "ST" \o ch \o "WEA0000")

get_state(w) == send_query(w, "RDSTA")

(***************************************************************************)
(* HVPSTestWindow                                                          *)
(***************************************************************************)
\* F applied to the value of v: one statement after another
Then(v, F(_)) == CHOOSE y \in {F(x) : x \in {v}} : TRUE

\* get_hv_enable_state / get_sol_enable_state, applied to the state string
\* a variant that decides the high voltage flag by the solenoid's bit
hv_enable_state_bit1(state) == ~(state = "STATE0000" \/ state = "STATE0001")

hv_enable_state(state) == ~(state = "STATE0000" \/ state = "STATE0010")

\* a variant that reports the solenoid enabled only on its two state strings
sol_enable_state_strict(state) == state \in {"STATE0010", "STATE0011"}

sol_enable_state(state) == ~(state = "STATE0000" \/ state = "STATE0001")

\* get_hv_enable_state(): state = self.hvps.get_state(), then the decision
get_hv_enable_state(w) ==
    Then(get_state(w), LAMBDA a :
        IF Ok(a) THEN [a EXCEPT !.hv = hv_enable_state(a.resp)] ELSE a)

\* get_sol_enable_state()
get_sol_enable_state(w) ==
    Then(get_state(w), LAMBDA a :
        IF Ok(a) THEN [a EXCEPT !.sol = sol_enable_state(a.resp)] ELSE a)

\* the test buttons of a stage's GUI: six voltages, three currents
StageButtons(ch) ==
    IF ch = "SL" THEN 1..Len(test_currents) ELSE 1..(2 * Len(test_voltages))

\* the voltage of the i-th test button: 100, 500, 1000, -100, -500, -1000
TestVoltage(i) ==
    IF i <= Len(test_voltages) THEN test_voltages[i]
    ELSE "-" \o test_voltages[i - Len(test_voltages)]

\* create_beam_test_gui ... create_sol_test_gui
create_test_gui(w, ch) ==
    [w EXCEPT !.channel = ch, !.buttons_enabled = StageButtons(ch),
              !.entries_enabled = {}]

\* a variant that leaves an enabled high voltage as it is
DisableAndZeroHV_never(w) == w

\* if HV is enabled: disable_high_voltage(); set_voltage(self.channel, '0')
DisableAndZeroHV(w) ==
    IF Ok(w) /\ hv_enable_state(w.resp)
    THEN Then(disable_high_voltage(w), LAMBDA a : set_voltage(a, a.channel, "0"))
    ELSE w

\* if the solenoid is enabled: disable_solenoid_current(); set_solenoid_current('0')
DisableAndZeroSol(w) ==
    IF Ok(w) /\ sol_enable_state(w.resp)
    THEN Then(disable_solenoid_current(w), LAMBDA a : set_solenoid_current(a, "0"))
    ELSE w

\* the close event is accepted by default: the window goes also when the
\* handler raised
closeEvent(w) ==
    Then(get_state(w), LAMBDA w1 :
    Then(DisableAndZeroHV(w1), LAMBDA w2 :
    Then(get_state(w2), LAMBDA w3 :
    Then(DisableAndZeroSol(w3), LAMBDA w4 :
        IF Ok(w4) THEN [w4 EXCEPT !.window_closed = @ + 1, !.window = "closed"]
        ELSE [w4 EXCEPT !.window = "closed"]))))

\* MainWindow.handle_hvps_test_complete(occupied_channels, readbacks,
\* measurements): a slot of three parameters, which runs when the signal
\* delivers three values and stores them for the report
handle_hvps_test_complete(results, args) ==
    IF Len(args) = 3 THEN Append(results, args) ELSE results

\* test_complete = Signal(dict, dict); test_complete.emit(self.readbacks,
\* self.measurements): the slot is connected once the constructor returned
emit_test_complete(w) ==
    LET args == <<w.readbacks, w.measurements>>
    IN  [w EXCEPT !.test_complete = Append(@, args),
                  !.test_results = IF w.connected
                                   THEN handle_hvps_test_complete(@, args)
                                   ELSE @]

\* a variant that emits at the end of the plan without closing the window
load_current_stage_noClose(w) ==
    IF ~Ok(w) THEN w
    ELSE IF w.current_stage_index < Len(w.test_stages)
    THEN create_test_gui(w, w.test_stages[w.current_stage_index + 1])
    ELSE emit_test_complete(w)

load_current_stage(w) ==
    IF ~Ok(w) THEN w
    ELSE IF w.current_stage_index < Len(w.test_stages)
    THEN create_test_gui(w, w.test_stages[w.current_stage_index + 1])
    ELSE Then(emit_test_complete(w), LAMBDA a : closeEvent(a))

\* a variant that takes the stages in the order of the list
test_plan_asListed(occ) == occ

\* test_plan: the master order, filtered by membership
test_plan(occ) == SelectSeq(all_channels, LAMBDA c : InSeq(c, occ))

handle_disable_hv_btn(w) ==
    Then(get_state(w), LAMBDA w1 :
    Then(IF Ok(w1) /\ hv_enable_state(w1.resp) THEN disable_high_voltage(w1) ELSE w1,
         LAMBDA w2 : set_voltage(w2, w2.channel, "0")))

handle_disable_sol_btn(w) ==
    Then(get_state(w), LAMBDA w1 :
        IF Ok(w1) /\ sol_enable_state(w1.resp) THEN disable_solenoid_current(w1)
        ELSE w1)

\* a variant that goes back to the stage before
handle_back_btn_previous(w) ==
    IF w.current_stage_index > 0
    THEN load_current_stage([w EXCEPT !.current_stage_index = @ - 1])
    ELSE w

handle_back_btn(w) == w

\* a variant that fills the fresh buffers with 'N/A'
ResetBuffer_notApplicable(ch) ==
    Repeat("N/A", IF ch # "SL" THEN VoltageSlots ELSE CurrentSlots)

\* the fresh per-stage buffers of handle_next_btn, sized by the stage left
ResetBuffer(ch) ==
    Repeat("unmeasured", IF ch # "SL" THEN VoltageSlots ELSE CurrentSlots)

\* a variant that moves on without copying the stage's buffers
StoreAndAdvance_noStore(w) ==
    IF Ok(w)
    THEN [w EXCEPT !.channel_measurements = ResetBuffer(w.channel),
                   !.channel_readbacks = ResetBuffer(w.channel),
                   !.current_stage_index = @ + 1]
    ELSE w

\* a variant that writes the stage's buffers under every channel
StoreAndAdvance_everyKey(w) ==
    IF Ok(w)
    THEN [w EXCEPT !.measurements = [c \in DOMAIN @ |-> w.channel_measurements],
                   !.readbacks = [c \in DOMAIN @ |-> w.channel_readbacks],
                   !.channel_measurements = ResetBuffer(w.channel),
                   !.channel_readbacks = ResetBuffer(w.channel),
                   !.current_stage_index = @ + 1]
    ELSE w

\* a variant that moves on by two stages
StoreAndAdvance_byTwo(w) ==
    IF Ok(w)
    THEN [w EXCEPT !.measurements[w.channel] = w.channel_measurements,
                   !.readbacks[w.channel] = w.channel_readbacks,
                   !.channel_measurements = ResetBuffer(w.channel),
                   !.channel_readbacks = ResetBuffer(w.channel),
                   !.current_stage_index = @ + 2]
    ELSE w

\* the dictionaries take the stage's buffers, the buffers are reset, the index moves
StoreAndAdvance(w) ==
    IF Ok(w)
    THEN [w EXCEPT !.measurements[w.channel] = w.channel_measurements,
                   !.readbacks[w.channel] = w.channel_readbacks,
                   !.channel_measurements = ResetBuffer(w.channel),
                   !.channel_readbacks = ResetBuffer(w.channel),
                   !.current_stage_index = @ + 1]
    ELSE w

handle_next_btn(w) ==
    Then(get_state(w), LAMBDA w1 :
    Then(DisableAndZeroHV(w1), LAMBDA w2 :
    Then(get_state(w2), LAMBDA w3 :
    Then(DisableAndZeroSol(w3), LAMBDA w4 :
    Then(StoreAndAdvance(w4), LAMBDA w5 : load_current_stage(w5))))))

\* the other buttons are disabled, the button pressed is left as it is
DisableOtherButtons(enabled, i) == enabled \cap {i}

\* a variant that sends the enable command whatever the state reported
handle_test_hv_btn_alwaysEnable(w, i) ==
    Then([w EXCEPT !.entries_enabled = @ \cup {i},
                   !.buttons_enabled = DisableOtherButtons(@, i)], LAMBDA w0 :
    Then(get_state(w0), LAMBDA w1 :
    Then(enable_high_voltage(w1),
         LAMBDA w2 : set_voltage(w2, w2.channel, TestVoltage(i)))))

\* handle_test_pos_100V_btn ... handle_test_neg_1kV_btn, i the button's index
handle_test_hv_btn(w, i) ==
    Then([w EXCEPT !.entries_enabled = @ \cup {i},
                   !.buttons_enabled = DisableOtherButtons(@, i)], LAMBDA w0 :
    Then(get_state(w0), LAMBDA w1 :
    Then(IF Ok(w1) /\ ~hv_enable_state(w1.resp) THEN enable_high_voltage(w1) ELSE w1,
         LAMBDA w2 : set_voltage(w2, w2.channel, TestVoltage(i)))))

\* handle_test_sol_current1_btn ... handle_test_sol_current3_btn
handle_test_sol_btn(w, i) ==
    Then([w EXCEPT !.entries_enabled = @ \cup {i}], LAMBDA w0 :
    Then(get_state(w0), LAMBDA w1 :
    Then(IF Ok(w1) /\ ~sol_enable_state(w1.resp) THEN enable_solenoid_current(w1)
         ELSE w1,
         LAMBDA w2 : set_solenoid_current(w2, test_currents[i]))))

\* a variant that appends to the lists instead of writing at index i
StoreAt_append(w, i, text) ==
    IF Ok(w)
    THEN [w EXCEPT !.channel_readbacks = Append(@, w.resp),
                   !.channel_measurements = Append(@, text),
                   !.entries_enabled = @ \ {i}]
    ELSE w

\* a variant that leaves the entry enabled
StoreAt_entryLeftEnabled(w, i, text) ==
    IF Ok(w)
    THEN [w EXCEPT !.channel_readbacks[i] = w.resp,
                   !.channel_measurements[i] = text]
    ELSE w

\* readback and measurement go to index i, the entry is disabled
StoreAt(w, i, text) ==
    IF Ok(w)
    THEN [w EXCEPT !.channel_readbacks[i] = w.resp,
                   !.channel_measurements[i] = text,
                   !.entries_enabled = @ \ {i}]
    ELSE w

EnableButtons(w) ==
    IF Ok(w) THEN [w EXCEPT !.buttons_enabled = StageButtons(w.channel)] ELSE w

\* a variant that disables the high voltage before it zeroes the target
handle_voltage_entered_disableFirst(w, i, text) ==
    Then(get_voltage(w, w.channel), LAMBDA w1 :
    Then(StoreAt(w1, i, text), LAMBDA w2 :
    Then(disable_high_voltage(w2), LAMBDA w3 :
    Then(set_voltage(w3, w3.channel, "0"), LAMBDA w4 : EnableButtons(w4)))))

\* handle_beam_pos_100V_entered ... handle_L4_neg_1kV_entered
handle_voltage_entered(w, i, text) ==
    Then(get_voltage(w, w.channel), LAMBDA w1 :
    Then(StoreAt(w1, i, text), LAMBDA w2 :
    Then(set_voltage(w2, w2.channel, "0"), LAMBDA w3 :
    Then(disable_high_voltage(w3), LAMBDA w4 : EnableButtons(w4)))))

\* handle_current1_entered ... handle_current3_entered
handle_current_entered(w, i, text) ==
    Then(get_current(w, w.channel), LAMBDA w1 :
    Then(StoreAt(w1, i, text), LAMBDA w2 :
    Then(set_solenoid_current(w2, "0"), LAMBDA w3 :
    Then(disable_solenoid_current(w3), LAMBDA w4 : EnableButtons(w4)))))

\* HVPSTestWindow(hvps, occupied_channels), from a device the control panel
\* left in the state dev
HVPSTestWindow(occ, dev) ==
    LET n == IF occ = <<"SL">> THEN CurrentSlots ELSE VoltageSlots
        w == [ occupied_channels |-> occ, test_stages |-> test_plan(occ),
               current_stage_index |-> 0, channel |-> "unset",
               channel_readbacks |-> Repeat("unmeasured", n),
               channel_measurements |-> Repeat("unmeasured", n),
               readbacks |-> [c \in Channels |->
                   Repeat("N/A", IF c = "SL" THEN CurrentSlots ELSE VoltageSlots)],
               measurements |-> [c \in Channels |->
                   Repeat("N/A", IF c = "SL" THEN CurrentSlots ELSE VoltageSlots)],
               buttons_enabled |-> {}, entries_enabled |-> {},
               window |-> "open", test_complete |-> <<>>, window_closed |-> 0,
               device |-> dev, test_results |-> <<>>, connected |-> FALSE,
               sent |-> <<>>, hvps_channels |-> hvps_occupied_channels,
               sock |-> TRUE, locks |-> 0, queries |-> 0, resp |-> "",
               exc |-> "none", err |-> "", failAt |-> NoFailure,
               hv |-> FALSE, sol |-> FALSE ]
    IN  Then(w, LAMBDA a : load_current_stage(a))

\* the client as the application builds it, HVPSv3(self.sock), and no call
\* made on it alone
NoCall ==
    [call |-> "none", ch |-> "", arg |-> "", exc |-> "none", err |-> "",
     ret |-> "", sent |-> <<>>, locks |-> 0, failAt |-> NoFailure,
     hv |-> FALSE, sol |-> FALSE]

ClientIdle ==
    /\ hvps = [occupied_channels |-> hvps_occupied_channels, sock |-> TRUE]
    /\ api = NoCall

\* no main window
NoApp ==
    [sock |-> "none", ready_to_quit |-> FALSE, timer |-> FALSE,
     thread |-> "none", worker_events |-> <<>>, gui_events |-> <<>>,
     stopped |-> FALSE, window |-> "none", loop |-> "none",
     ticks |-> 0, closes |-> 0, closed_queries |-> 0,
     poll |-> "none"]

\* no thread is in send_query
SockIdle ==
    /\ lock = "free"
    /\ pc = [t \in Threads |-> "idle"]
    /\ request = [t \in Threads |-> ""]
    /\ sendpos = [t \in Threads |-> 0]
    /\ stream = <<>>
    /\ devpos = 0
    /\ replies = <<>>
    /\ result = [t \in Threads |-> NoResult]
    /\ calls = [t \in Threads |-> 0]
    /\ sockFaults = 0

(***************************************************************************)
(* The session: one action per handler                                     *)
(***************************************************************************)
\* the places where the socket can fail in a handler that sends n queries
Failures(n) ==
    {NoFailure} \cup
    (IF faults < MaxFaults THEN (1..n) \X {"write", "read"} ELSE {})

Commit(w, op, arg, cost) ==
    /\ occupied_channels' = w.occupied_channels
    /\ test_stages' = w.test_stages
    /\ current_stage_index' = w.current_stage_index
    /\ channel' = w.channel
    /\ channel_readbacks' = w.channel_readbacks
    /\ channel_measurements' = w.channel_measurements
    /\ readbacks' = w.readbacks
    /\ measurements' = w.measurements
    /\ buttons_enabled' = w.buttons_enabled
    /\ entries_enabled' = w.entries_enabled
    /\ window' = w.window
    /\ test_complete' = w.test_complete
    /\ window_closed' = w.window_closed
    /\ device' = w.device
    /\ test_results' = w.test_results
    /\ sent' = w.sent
    /\ last' = [op |-> op, arg |-> arg, exc |-> w.exc]
    /\ ops' = ops + cost
    /\ faults' = faults + (IF w.exc = "ConnectionError" THEN 1 ELSE 0)
    /\ UNCHANGED <<hvps, api, app>>
    /\ UNCHANGED sockVars

\* the device as handle_run_test leaves it: every target zero, the enables
\* as the control panel's buttons set them
InitialDevices ==
    { [hv |-> h, sol |-> s, nak |-> "",
       target |-> [c \in Channels |-> IF c = "SL" THEN ZeroCurrent ELSE ZeroVoltage]]
      : h \in BOOLEAN, s \in BOOLEAN }

Init ==
    \E occ \in InstalledLists, dev \in InitialDevices :
        \E w \in {HVPSTestWindow(occ, dev)} :
        /\ occupied_channels = w.occupied_channels
        /\ test_stages = w.test_stages
        /\ current_stage_index = w.current_stage_index
        /\ channel = w.channel
        /\ channel_readbacks = w.channel_readbacks
        /\ channel_measurements = w.channel_measurements
        /\ readbacks = w.readbacks
        /\ measurements = w.measurements
        /\ buttons_enabled = w.buttons_enabled
        /\ entries_enabled = w.entries_enabled
        /\ window = w.window
        /\ test_complete = w.test_complete
        /\ window_closed = w.window_closed
        /\ device = w.device
        /\ test_results = w.test_results
        /\ sent = w.sent
        /\ last = [op |-> "init", arg |-> 0, exc |-> w.exc]
        /\ ops = 0
        /\ faults = 0
        /\ ClientIdle
        /\ SockIdle
        /\ app = NoApp

Running == window = "open"

TriggerVoltage ==
    /\ Running /\ channel # "SL" /\ ops < MaxOps
    /\ \E i \in buttons_enabled \cap PressedButtons :
       \E w0 \in {World(NoFailure)} :
       \E f \in Failures(handle_test_hv_btn(w0, i).queries) :
       \E w \in {handle_test_hv_btn([w0 EXCEPT !.failAt = f], i)} :
           Commit(w, "trigger", i, 1)

TriggerCurrent ==
    /\ Running /\ channel = "SL" /\ ops < MaxOps
    /\ \E i \in buttons_enabled \cap PressedButtons :
       \E w0 \in {World(NoFailure)} :
       \E f \in Failures(handle_test_sol_btn(w0, i).queries) :
       \E w \in {handle_test_sol_btn([w0 EXCEPT !.failAt = f], i)} :
           Commit(w, "trigger", i, 1)

RecordVoltage ==
    /\ Running /\ channel # "SL" /\ ops < MaxOps
    /\ \E i \in entries_enabled, text \in MeasurementTexts :
       \E w0 \in {World(NoFailure)} :
       \E f \in Failures(handle_voltage_entered(w0, i, text).queries) :
       \E w \in {handle_voltage_entered([w0 EXCEPT !.failAt = f], i, text)} :
           Commit(w, "record", i, 1)

RecordCurrent ==
    /\ Running /\ channel = "SL" /\ ops < MaxOps
    /\ \E i \in entries_enabled, text \in MeasurementTexts :
       \E w0 \in {World(NoFailure)} :
       \E f \in Failures(handle_current_entered(w0, i, text).queries) :
       \E w \in {handle_current_entered([w0 EXCEPT !.failAt = f], i, text)} :
           Commit(w, "record", i, 1)

DisableHV ==
    /\ Running /\ channel # "SL" /\ ops < MaxOps
    /\ \E w0 \in {World(NoFailure)} :
       \E f \in Failures(handle_disable_hv_btn(w0).queries) :
       \E w \in {handle_disable_hv_btn([w0 EXCEPT !.failAt = f])} :
           Commit(w, "disable", 0, 1)

DisableSol ==
    /\ Running /\ channel = "SL" /\ ops < MaxOps
    /\ \E w0 \in {World(NoFailure)} :
       \E f \in Failures(handle_disable_sol_btn(w0).queries) :
       \E w \in {handle_disable_sol_btn([w0 EXCEPT !.failAt = f])} :
           Commit(w, "disable", 0, 1)

Back ==
    /\ Running /\ ops < MaxOps
    /\ \E w \in {handle_back_btn(World(NoFailure))} : Commit(w, "back", 0, 1)

Next_btn ==
    /\ Running
    /\ \E w0 \in {World(NoFailure)} :
       \E f \in Failures(handle_next_btn(w0).queries) :
       \E w \in {handle_next_btn([w0 EXCEPT !.failAt = f])} :
           Commit(w, "next", 0, 0)

Close ==
    /\ Running
    /\ \E w0 \in {World(NoFailure)} :
       \E f \in Failures(closeEvent(w0).queries) :
       \E w \in {closeEvent([w0 EXCEPT !.failAt = f])} : Commit(w, "close", 0, 0)

Next ==
    \/ TriggerVoltage
    \/ TriggerCurrent
    \/ RecordVoltage
    \/ RecordCurrent
    \/ DisableHV
    \/ DisableSol
    \/ Back
    \/ Next_btn
    \/ Close

Spec == Init /\ [][Next]_vars

(***************************************************************************)
(* send_query called by two threads: one step per lock operation and per   *)
(* socket call                                                             *)
(***************************************************************************)
\* the calls a thread makes
MaxCalls == 1

\* the socket errors in a run
MaxSockFaults == 1

\* the queries of the test window's handlers and of update_readings
ThreadQueries ==
    [t \in Threads |-> IF t = "gui" THEN {"RDSTA", "STHV1"} ELSE {"RDBMV", "RDBMC"}]

\* no test window: the session's variables stay as they are here
SessionIdle ==
    /\ occupied_channels = <<>>
    /\ test_stages = <<>>
    /\ current_stage_index = 0
    /\ channel = "unset"
    /\ channel_readbacks = <<>>
    /\ channel_measurements = <<>>
    /\ readbacks = <<>>
    /\ measurements = <<>>
    /\ buttons_enabled = {}
    /\ entries_enabled = {}
    /\ window = "none"
    /\ test_complete = <<>>
    /\ window_closed = 0
    /\ test_results = <<>>
    /\ sent = <<>>
    /\ last = [op |-> "none", arg |-> 0, exc |-> "none"]
    /\ ops = 0
    /\ faults = 0
    /\ ClientIdle

SockInit ==
    /\ SessionIdle
    /\ SockIdle
    /\ app = NoApp
    /\ device \in InitialDevices

\* send_query is entered: the newline is appended, the lock is asked for
Call(t) ==
    /\ pc[t] = "idle"
    /\ calls[t] < MaxCalls
    /\ \E q \in ThreadQueries[t] :
        request' = [request EXCEPT ![t] = IF EndsWithNewline(q) THEN q ELSE q \o "\n"]
    /\ pc' = [pc EXCEPT ![t] = "lock"]
    /\ calls' = [calls EXCEPT ![t] = @ + 1]
    /\ sendpos' = [sendpos EXCEPT ![t] = 0]
    /\ result' = [result EXCEPT ![t] = NoResult]
    /\ UNCHANGED <<lock, stream, devpos, replies, sockFaults, device, sessionVars>>

\* with self.lock: the thread waits until the lock is free and takes it
Acquire(t) ==
    /\ pc[t] = "lock"
    /\ lock = "free"
    /\ lock' = t
    /\ pc' = [pc EXCEPT ![t] = "sendall"]
    /\ UNCHANGED <<request, sendpos, stream, devpos, replies, result, calls,
                   sockFaults, device, sessionVars>>

\* a variant of the with block that keeps the lock when it is left
Release_keepsLock(t) == lock

\* leaving the with block, by return or by exception, frees the lock
Release(t) == IF lock = t THEN "free" ELSE lock

\* where sendall may split a line
SplitAt == 3

\* sendall hands the line to the socket in one piece or in two
PieceEnds(t) == {Len(request[t])} \cup ({SplitAt} \ (1..sendpos[t]))

Sendall(t) ==
    /\ pc[t] = "sendall"
    /\ \E e \in PieceEnds(t) :
        /\ stream' = Append(stream,
                [from |-> t, text |-> SubSeq(request[t], sendpos[t] + 1, e)])
        /\ sendpos' = [sendpos EXCEPT ![t] = e]
        /\ pc' = [pc EXCEPT ![t] = IF e = Len(request[t]) THEN "recv" ELSE "sendall"]
    /\ UNCHANGED <<lock, request, devpos, replies, result, calls, sockFaults,
                   device, sessionVars>>

\* sendall raises socket.error: ConnectionError leaves the with block
SendallFails(t) ==
    /\ pc[t] = "sendall"
    /\ sockFaults < MaxSockFaults
    /\ sockFaults' = sockFaults + 1
    /\ result' = [result EXCEPT ![t] = [NoResult EXCEPT !.kind = "ConnectionError"]]
    /\ lock' = Release(t)
    /\ pc' = [pc EXCEPT ![t] = "idle"]
    /\ UNCHANGED <<request, sendpos, stream, devpos, replies, calls, device,
                   sessionVars>>

RECURSIVE Texts(_)
Texts(rs) == IF rs = <<>> THEN "" ELSE Head(rs).text \o Texts(Tail(rs))

\* recv(1024) returns what the receive buffer holds; the caller gets it
\* decoded and stripped
Recv(t) ==
    /\ pc[t] = "recv"
    /\ replies # <<>>
    /\ result' = [result EXCEPT ![t] =
            [kind |-> "response", text |-> strip(Texts(replies)),
             owners |-> {replies[k].owner : k \in DOMAIN replies}]]
    /\ replies' = <<>>
    /\ lock' = Release(t)
    /\ pc' = [pc EXCEPT ![t] = "idle"]
    /\ UNCHANGED <<request, sendpos, stream, devpos, calls, sockFaults, device,
                   sessionVars>>

\* recv raises socket.timeout with nothing received: ConnectionError
RecvFails(t) ==
    /\ pc[t] = "recv"
    /\ replies = <<>>
    /\ sockFaults < MaxSockFaults
    /\ sockFaults' = sockFaults + 1
    /\ result' = [result EXCEPT ![t] = [NoResult EXCEPT !.kind = "ConnectionError"]]
    /\ lock' = Release(t)
    /\ pc' = [pc EXCEPT ![t] = "idle"]
    /\ UNCHANGED <<request, sendpos, stream, devpos, replies, calls, device,
                   sessionVars>>

RECURSIVE PieceTexts(_, _, _)
PieceTexts(s, a, b) == IF a > b THEN "" ELSE s[a].text \o PieceTexts(s, a + 1, b)

\* the device reads the stream up to the next newline and answers the line
DeviceReads ==
    \E k \in (devpos + 1)..Len(stream) :
        /\ EndsWithNewline(stream[k].text)
        /\ \A j \in (devpos + 1)..(k - 1) : ~EndsWithNewline(stream[j].text)
        /\ \E d \in {Device(device, PieceTexts(stream, devpos + 1, k))} :
            /\ device' = d.dev
            /\ replies' = Append(replies,
                    [text |-> d.resp,
                     owner |-> IF \A j \in (devpos + 1)..k : stream[j].from = stream[k].from
                               THEN stream[k].from ELSE "mixed"])
        /\ devpos' = k
        /\ UNCHANGED <<lock, pc, request, sendpos, stream, result, calls,
                       sockFaults, sessionVars>>

SockNext ==
    \/ \E t \in Threads : Call(t)
    \/ \E t \in Threads : Acquire(t)
    \/ \E t \in Threads : Sendall(t)
    \/ \E t \in Threads : SendallFails(t)
    \/ \E t \in Threads : Recv(t)
    \/ \E t \in Threads : RecvFails(t)
    \/ DeviceReads

SpecSock == SockInit /\ [][SockNext]_vars

\* the threads are scheduled and the device answers: a step that stays
\* possible is taken
SpecSockFair == SpecSock /\ WF_vars(SockNext)

(***************************************************************************)
(* The client and the plan on their own: one call at a time, on a client   *)
(* built with any list of installed channels, with or without a socket     *)
(***************************************************************************)
\* the longest list of installed channels
MaxInstalled == 3

\* the channels the lists are made of
ListedChannels == {"BM", "L2", "SL"}

\* the lists without repetition, in every order
InstalledOrders ==
    { l \in UNION { [1..n -> ListedChannels] : n \in 0..MaxInstalled } :
        \A a \in DOMAIN l, b \in DOMAIN l : l[a] = l[b] => a = b }

\* the channels the calls name: one that is never installed among them
CallChannels == {"BM", "EX", "SL"}

\* the voltages given to set_voltage
VoltageInputs == {"", "-500"}

\* the queries given to send_query, with and without their newline
QueryInputs == {"RDSTA", "STHV1\n"}

\* the one query of a call succeeds, or fails in sendall, or fails in recv
CallFailures == {NoFailure, <<1, "write">>, <<1, "read">>}

UnitInit ==
    /\ occupied_channels \in InstalledOrders
    /\ test_stages = <<>>
    /\ current_stage_index = 0
    /\ channel = "unset"
    /\ channel_readbacks = <<>>
    /\ channel_measurements = <<>>
    /\ readbacks = <<>>
    /\ measurements = <<>>
    /\ buttons_enabled = {}
    /\ entries_enabled = {}
    /\ window = "none"
    /\ test_complete = <<>>
    /\ window_closed = 0
    /\ test_results = <<>>
    /\ sent = <<>>
    /\ last = [op |-> "none", arg |-> 0, exc |-> "none"]
    /\ ops = 0
    /\ faults = 0
    /\ \E b \in BOOLEAN : hvps = [occupied_channels |-> occupied_channels, sock |-> b]
    /\ api = NoCall
    /\ device \in InitialDevices
    /\ SockIdle
    /\ app = NoApp

\* what a call on the client leaves behind
Outcome(w, call, ch, arg, f) ==
    /\ api' = [NoCall EXCEPT !.call = call, !.ch = ch, !.arg = arg,
                             !.exc = w.exc, !.err = w.err, !.ret = w.resp,
                             !.sent = w.sent, !.locks = w.locks, !.failAt = f,
                             !.hv = w.hv, !.sol = w.sol]
    /\ device' = w.device
    /\ UNCHANGED <<occupied_channels, test_stages, current_stage_index, channel,
                   channel_readbacks, channel_measurements, readbacks,
                   measurements, buttons_enabled, entries_enabled, window,
                   test_complete, window_closed, test_results, sent, last, ops,
                   faults, hvps, app, sockVars>>

CallSetVoltage ==
    \E ch \in CallChannels, v \in VoltageInputs, f \in CallFailures :
    \E w \in {set_voltage(World(f), ch, v)} : Outcome(w, "set_voltage", ch, v, f)

CallGetVoltage ==
    \E ch \in CallChannels, f \in CallFailures :
    \E w \in {get_voltage(World(f), ch)} : Outcome(w, "get_voltage", ch, "", f)

CallGetCurrent ==
    \E ch \in CallChannels, f \in CallFailures :
    \E w \in {get_current(World(f), ch)} : Outcome(w, "get_current", ch, "", f)

CallSendQuery ==
    \E q \in QueryInputs, f \in CallFailures :
    \E w \in {send_query(World(f), q)} : Outcome(w, "send_query", "", q, f)

\* get_hv_enable_state() and get_sol_enable_state() on the state string that
\* get_state() returned
CallGetEnableStates ==
    \E w1 \in {get_hv_enable_state(World(NoFailure))} :
    \E w2 \in {get_sol_enable_state(w1)} :
        Outcome(w2, "get_enable_state", "", "", NoFailure)

\* test_plan() on the list of installed channels
CallTestPlan ==
    /\ test_stages' = test_plan(occupied_channels)
    /\ api' = [NoCall EXCEPT !.call = "test_plan"]
    /\ UNCHANGED <<occupied_channels, current_stage_index, channel,
                   channel_readbacks, channel_measurements, readbacks,
                   measurements, buttons_enabled, entries_enabled, window,
                   test_complete, window_closed, test_results, sent, last, ops,
                   faults, hvps, app, device, sockVars>>

UnitNext ==
    \/ CallSetVoltage
    \/ CallGetVoltage
    \/ CallGetCurrent
    \/ CallSendQuery
    \/ CallGetEnableStates
    \/ CallTestPlan

SpecUnit == UnitInit /\ [][UnitNext]_vars

(***************************************************************************)
(* MainWindow: the control panel                                           *)
(***************************************************************************)
\* the keys of NAKS
NAKS == {"NAK", "NAK0", "NAK1", "NAK2", "NAK3", "NAK4"}

\* the message of the ValueError of int() and float()
NotANumber == "could not convert string"

\* one round of the loop of update_readings: both readbacks are fetched and
\* stripped, then float(i_readback), then int(v_readback) or float(v_readback)
ReadChannel(w, ch) ==
    Then(get_voltage(w, ch), LAMBDA w1 :
    Then(get_current(w1, ch), LAMBDA w2 :
        LET v == StripChars(w1.resp, {CharAt(ch, 1), CharAt(ch, 2), "V", " "})
            i == StripChars(w2.resp, {CharAt(ch, 1), CharAt(ch, 2), "C", " "})
        IN  IF ~Ok(w2) THEN w2
            ELSE IF ~IsFloat(i) THEN RaiseWith(w2, "ValueError", NotANumber)
            ELSE IF ch # "SL" /\ ~IsInt(v)
            THEN RaiseWith(w2, "ValueError", NotANumber)
            ELSE IF ch = "SL" /\ ~IsFloat(v)
            THEN RaiseWith(w2, "ValueError", NotANumber)
            ELSE w2))

\* update_readings: the channels of all_channels from the k-th on
RECURSIVE update_readings_from(_, _)
update_readings_from(w, k) ==
    IF k > Len(all_channels) THEN w
    ELSE Then(ReadChannel(w, all_channels[k]), LAMBDA a :
              update_readings_from(a, k + 1))

update_readings(w) == update_readings_from(w, 1)

\* handle_return_pressed with the focus in the entry of channel ch: every
\* case of the match, the solenoid's too, calls set_voltage
handle_return_pressed(w, ch, text) ==
    IF ~w.sock THEN w ELSE set_voltage(w, ch, text)

(***************************************************************************)
(* One call on a fresh client: the commands the client builds              *)
(***************************************************************************)
\* the lists the client is built with: the default, one with BM and one
\* with neither BM nor SL
CodecInstalled == { all_channels, <<"L1", "BM">>, <<"EX", "L2">> }

\* the texts given as a voltage: empty, unsigned, signed, one to five digits
CodecVoltages == {"", "0", "7", "500", "+500", "-1000", "12345", "-99999"}

\* the device answers every request with one NAK code
NakDevices == { [d EXCEPT !.nak = n] : d \in InitialDevices, n \in NAKS }

\* other answers that are none of the four state strings
OtherAnswers == {"ACK", "STATE0100"}

\* the device answers every request with one of them
StrayDevices == { [d EXCEPT !.nak = a] : d \in InitialDevices, a \in OtherAnswers }

CodecInit ==
    /\ occupied_channels = <<>>
    /\ test_stages = <<>>
    /\ current_stage_index = 0
    /\ channel = "unset"
    /\ channel_readbacks = <<>>
    /\ channel_measurements = <<>>
    /\ readbacks = <<>>
    /\ measurements = <<>>
    /\ buttons_enabled = {}
    /\ entries_enabled = {}
    /\ window = "none"
    /\ test_complete = <<>>
    /\ window_closed = 0
    /\ test_results = <<>>
    /\ sent = <<>>
    /\ last = [op |-> "none", arg |-> 0, exc |-> "none"]
    /\ ops = 0
    /\ faults = 0
    /\ \E occ \in CodecInstalled : hvps = [occupied_channels |-> occ, sock |-> TRUE]
    /\ api = NoCall
    /\ device \in InitialDevices \cup NakDevices \cup StrayDevices
    /\ SockIdle
    /\ app = NoApp

\* the texts given as a solenoid current: empty, zero, the test currents
CodecCurrents == {"", "0", "0.3", "1.2", "2.5"}

\* the amplitudes given to enable_wobble
CodecAmplitudes == {"5", "999"}

\* no call was made on the client yet
Fresh == api.call = "none"

EncodeSetVoltage ==
    /\ Fresh
    /\ \E ch \in Channels, v \in CodecVoltages :
       \E w \in {set_voltage(World(NoFailure), ch, v)} :
           Outcome(w, "set_voltage", ch, v, NoFailure)

EncodeSetSolenoidCurrent ==
    /\ Fresh
    /\ \E c \in CodecCurrents :
       \E w \in {set_solenoid_current(World(NoFailure), c)} :
           Outcome(w, "set_solenoid_current", "SL", c, NoFailure)

EncodeEnableWobble ==
    /\ Fresh
    /\ \E ch \in Channels, a \in CodecAmplitudes :
       \E w \in {enable_wobble(World(NoFailure), ch, a)} :
           Outcome(w, "enable_wobble", ch, a, NoFailure)

EncodeDisableWobble ==
    /\ Fresh
    /\ \E ch \in Channels :
       \E w \in {disable_wobble(World(NoFailure), ch)} :
           Outcome(w, "disable_wobble", ch, "", NoFailure)

\* the readbacks a caller asks for
EncodeGetVoltage ==
    /\ Fresh
    /\ \E ch \in Channels :
       \E w \in {get_voltage(World(NoFailure), ch)} :
           Outcome(w, "get_voltage", ch, "", NoFailure)

EncodeGetState ==
    /\ Fresh
    /\ \E w \in {get_state(World(NoFailure))} :
           Outcome(w, "get_state", "", "", NoFailure)

\* the worker's signal runs update_readings once
Poll ==
    /\ Fresh
    /\ hvps.occupied_channels = hvps_occupied_channels
    /\ \E w \in {update_readings(World(NoFailure))} :
           Outcome(w, "update_readings", "", "", NoFailure)

\* return is pressed in one of the seven target entries of the control panel
ReturnPressed ==
    /\ Fresh
    /\ hvps.occupied_channels = hvps_occupied_channels
    /\ \E ch \in Channels :
       \E text \in (IF ch = "SL" THEN CodecCurrents ELSE CodecVoltages) :
       \E w \in {handle_return_pressed(World(NoFailure), ch, text)} :
           Outcome(w, "return_pressed", ch, text, NoFailure)

\* the test window's two decoders, each on its own state query
DecodeEnableStates ==
    /\ Fresh
    /\ \E w1 \in {get_hv_enable_state(World(NoFailure))} :
       \E w2 \in {get_sol_enable_state(w1)} :
           Outcome(w2, "get_enable_state", "", "", NoFailure)

CodecNext ==
    \/ EncodeSetVoltage
    \/ EncodeSetSolenoidCurrent
    \/ EncodeEnableWobble
    \/ EncodeDisableWobble
    \/ EncodeGetVoltage
    \/ EncodeGetState
    \/ Poll
    \/ ReturnPressed
    \/ DecodeEnableStates

SpecCodec == CodecInit /\ [][CodecNext]_vars

(***************************************************************************)
(* Properties of send_query                                                *)
(***************************************************************************)
\* a thread is between its first write and the end of its read
InTransaction(t) == pc[t] \in {"sendall", "recv"}

\* the write and the read of one call end before another call's write begins
Serialized ==
    \A t \in Threads, u \in Threads : (InTransaction(t) /\ InTransaction(u)) => t = u

\* a piece that does not end its line is followed by a piece of the same caller
NoInterleaving ==
    \A k \in 1..(Len(stream) - 1) :
        ~EndsWithNewline(stream[k].text) => stream[k + 1].from = stream[k].from

\* what a call returned is the response to its own request, and to nothing else
OwnResponses ==
    \A t \in Threads : result[t].kind = "response" => result[t].owners = {t}

\* C1: in no reachable state are two send_query transactions in progress at
\* once, are the bytes of two commands interleaved on the socket, or has a
\* caller a response to a request it did not send
C1_NeverInterleaved == Serialized /\ NoInterleaving /\ OwnResponses

(***************************************************************************)
(* MainWindow at shutdown: the worker thread, the close request, the socket *)
(***************************************************************************)
\* timer ticks of the worker
MaxTicks == 2

\* MainWindow.__init__ with sock given ("open") or None ("none"), window
\* shown, event loop entered, the worker's timer started in its thread
MainWindow(sock) ==
    [NoApp EXCEPT !.sock = sock, !.timer = TRUE, !.thread = "running",
                  !.window = "shown", !.loop = "running"]

ShutdownInit ==
    /\ SessionIdle
    /\ SockIdle
    /\ device \in InitialDevices
    /\ app \in {MainWindow("none"), MainWindow("open")}

\* close_socket(sock): sock.close() if there is a socket
close_socket(a) ==
    IF a.sock = "none" THEN a
    ELSE [a EXCEPT !.sock = "closed", !.closes = @ + 1]

\* MainWindow.closeEvent: not ready to quit, the stop request is queued to
\* the worker's thread and the event ignored; then, in both cases, the
\* socket is closed and QWidget.closeEvent is called, which accepts the event
MainWindow_closeEvent(a) ==
    Then(IF a.ready_to_quit THEN a
         ELSE [a EXCEPT !.ready_to_quit = FALSE,
                        !.worker_events = Append(@, "stop")], LAMBDA a1 :
    Then(close_socket(a1), LAMBDA a2 : [a2 EXCEPT !.window = "closed"]))

\* MainWindow.on_worker_stopped: the thread quits and is waited for, then
\* self.close() sends the close event again
on_worker_stopped(a) ==
    MainWindow_closeEvent([a EXCEPT !.thread = "finished", !.ready_to_quit = TRUE])

\* Worker.stop in the worker's thread: the timer stops, stopped is emitted
\* and queued to the GUI thread
Worker_stop(a) ==
    [a EXCEPT !.timer = FALSE, !.stopped = TRUE,
              !.gui_events = Append(@, "stopped")]

\* Worker.on_timeout in the worker's thread: updated is emitted and queued
\* to the GUI thread
on_timeout(a) == [a EXCEPT !.ticks = @ + 1, !.gui_events = Append(@, "updated")]

ShutdownStep(a) ==
    /\ app' = a
    /\ UNCHANGED <<occupied_channels, test_stages, current_stage_index, channel,
                   channel_readbacks, channel_measurements, readbacks,
                   measurements, buttons_enabled, entries_enabled, window,
                   test_complete, window_closed, test_results, sent, last, ops,
                   faults, hvps, api, device, sockVars>>

\* the timer fires
Timeout ==
    /\ app.timer /\ app.thread = "running"
    /\ app.ticks < MaxTicks
    /\ ShutdownStep(on_timeout(app))

\* the user closes the main window
CloseRequest ==
    /\ app.loop = "running"
    /\ app.window = "shown"
    /\ ShutdownStep(MainWindow_closeEvent(app))

\* the worker's thread takes the stop request from its queue
DeliverStop ==
    /\ app.thread = "running"
    /\ app.worker_events # <<>>
    /\ ShutdownStep(Worker_stop([app EXCEPT !.worker_events = Tail(@)]))

\* the GUI thread takes updated from its queue: update_readings, which
\* returns at once without a client and whose first sendall fails on a
\* closed socket
DeliverUpdated ==
    /\ app.loop = "running"
    /\ app.gui_events # <<>> /\ Head(app.gui_events) = "updated"
    /\ IF app.sock = "none"
       THEN ShutdownStep([app EXCEPT !.gui_events = Tail(@)])
       ELSE \E w \in {update_readings(World(IF app.sock = "closed"
                                            THEN <<1, "write">> ELSE NoFailure))} :
                ShutdownStep([app EXCEPT
                    !.gui_events = Tail(@),
                    !.poll = w.exc,
                    !.closed_queries = @ + (IF app.sock = "closed"
                                            THEN w.queries ELSE 0)])

\* the GUI thread takes stopped from its queue
DeliverStopped ==
    /\ app.loop = "running"
    /\ app.gui_events # <<>> /\ Head(app.gui_events) = "stopped"
    /\ ShutdownStep(on_worker_stopped([app EXCEPT !.gui_events = Tail(@)]))

\* run_app: the last window is closed, app.exec() returns and the events
\* still queued are dropped
Quit ==
    /\ app.loop = "running"
    /\ app.window = "closed"
    /\ ShutdownStep([app EXCEPT !.loop = "exited"])

ShutdownNext ==
    \/ Timeout
    \/ CloseRequest
    \/ DeliverStop
    \/ DeliverUpdated
    \/ DeliverStopped
    \/ Quit

SpecShutdown == ShutdownInit /\ [][ShutdownNext]_vars

(***************************************************************************)
(* Properties of the test session                                          *)
(***************************************************************************)
Range(s) == {s[k] : k \in DOMAIN s}

Installed == Range(occupied_channels)

Emitted == test_complete # <<>>

\* the N/A list a channel's entry is constructed with
NotApplicable(c) == Repeat("N/A", IF c = "SL" THEN CurrentSlots ELSE VoltageSlots)

\* C2: whenever Next has entered a stage or finished the session, the device
\* has neither the high voltage nor the solenoid enabled
C2_OutputsOffOnEntry ==
    (last.op = "next" /\ last.exc = "none" /\ faults = 0)
        => (~device.hv /\ ~device.sol)

\* Next found the high voltage enabled, switched it off and moved on
C2_Witness ==
    /\ last.op = "next" /\ last.exc = "none" /\ faults = 0
    /\ current_stage_index >= 1
    /\ InSeq("STHV0\n", sent)
    /\ ~device.hv /\ ~device.sol

\* C3: when Next has finished the session without a transport error, both
\* enables are off and the target of every tested channel is zero
C3_FinishedAllZero ==
    (Emitted /\ last.op = "next" /\ faults = 0)
        => /\ ~device.hv /\ ~device.sol
           /\ \A c \in Range(test_stages) :
                device.target[c] = (IF c = "SL" THEN ZeroCurrent ELSE ZeroVoltage)

\* C4: after the window was closed by the user in any stage, without a
\* transport error, both outputs are disabled and window_closed was signalled
C4_CloseDisablesBoth ==
    (last.op = "close" /\ last.exc # "ConnectionError")
        => (~device.hv /\ ~device.sol /\ window_closed = 1)

\* C5: when a write or read failed during the teardown, the disable and zero
\* commands of an output that is still enabled were attempted all the same
C5_CleanupAfterError ==
    (last.op = "close" /\ last.exc = "ConnectionError")
        => /\ device.hv => /\ InSeq("STHV0\n", sent)
                           /\ InSeq("ST" \o channel \o "T+00000\n", sent)
           /\ device.sol => /\ InSeq("STSL0\n", sent)
                            /\ InSeq("STSLT000.00\n", sent)

\* C6: in every stage at most one setpoint awaits its measurement, and while
\* one does every other test button is disabled
C6_OneSetpointActive ==
    /\ Cardinality(entries_enabled) <= 1
    /\ \A i \in entries_enabled : buttons_enabled \subseteq {i}

\* C7: in the emitted data every installed voltage channel has lists of
\* length 6 and SL, when installed, lists of length 3
C7_EmittedLengths ==
    \A k \in DOMAIN test_complete : \A c \in Installed : \A d \in 1..2 :
        Len(test_complete[k][d][c]) = (IF c = "SL" THEN CurrentSlots ELSE VoltageSlots)

\* C8 as stated: the keys of both emitted dictionaries are the installed set
C8_KeysAreInstalled ==
    (Emitted /\ last.op = "next")
        => \A d \in 1..2 : DOMAIN test_complete[1][d] = Installed

\* C8: the keys of both emitted dictionaries are all seven channels, and the
\* installed channels are the ones whose entry is not the N/A list
C8_KeysAreAllChannels ==
    (Emitted /\ last.op = "next")
        => \A d \in 1..2 :
            /\ DOMAIN test_complete[1][d] = Channels
            /\ \A c \in Channels :
                (c \in Installed) <=> (test_complete[1][d][c] # NotApplicable(c))

\* the session of a plan of two stages has finished
C8_Witness ==
    /\ Emitted /\ last.op = "next"
    /\ Len(test_stages) = 2
    /\ DOMAIN test_complete[1][1] = Channels
    /\ test_complete[1][1][test_stages[1]] # NotApplicable(test_stages[1])

\* C9 as stated: the event is emitted only by Next on the last stage
C9_EmittedOnlyByNext ==
    Emitted => (last.op = "next" /\ Len(test_complete) = 1)

\* a step that emits the event
Emits == Len(test_complete') > Len(test_complete)

\* a step in which Next moves past the last stage of the plan
NextOnLastStage ==
    /\ last'.op = "next"
    /\ current_stage_index = Len(test_stages) - 1
    /\ current_stage_index' = Len(test_stages)

\* C9: for a plan of at least one stage the event is emitted exactly when
\* Next is applied on the last stage, once, with the dictionaries as they are
\* then, and nothing of the session data changes after it
C9_EmittedOnceAtLastNext ==
    /\ [](test_stages # <<>> =>
            /\ Len(test_complete) <= 1
            /\ Emitted <=> current_stage_index = Len(test_stages)
            /\ Emitted => last.op = "next")
    /\ [][ /\ Emits <=> NextOnLastStage
           /\ Emits => test_complete' = <<<<readbacks', measurements'>>>>
           /\ Emitted => UNCHANGED <<test_complete, readbacks, measurements,
                                     channel_readbacks, channel_measurements>>
         ]_vars

\* the session of a plan of two stages has finished with its one emission
C9_Witness ==
    /\ Len(test_stages) = 2
    /\ current_stage_index = 2
    /\ last.op = "next"
    /\ test_complete = <<<<readbacks, measurements>>>>
    /\ window = "closed"

\* C10: the event carries (occupiedChannels, readbacks, measurements) and the
\* receiver was invoked with these three values
C10_ThreeValues ==
    (Emitted /\ last.op = "next")
        => /\ test_complete[1] = <<occupied_channels, readbacks, measurements>>
           /\ test_results = <<test_complete[1]>>

(***************************************************************************)
(* Properties of the plan and of the client's calls                        *)
(***************************************************************************)
\* the place of a channel in the master order
MasterIndex(c) == CHOOSE k \in DOMAIN all_channels : all_channels[k] = c

\* C11: the stages of the plan are the installed channels, each once, in the
\* master order, in whatever order the list names them
C11_PlanInMasterOrder ==
    api.call = "test_plan"
        => /\ Range(test_stages) = Installed
           /\ Len(test_stages) = Cardinality(Installed)
           /\ \A a \in DOMAIN test_stages, b \in DOMAIN test_stages :
                a < b => MasterIndex(test_stages[a]) < MasterIndex(test_stages[b])

\* the plan of the list SL, BM, L2
C11_Witness ==
    /\ api.call = "test_plan"
    /\ occupied_channels = <<"SL", "BM", "L2">>
    /\ test_stages = <<"BM", "L2", "SL">>

(***************************************************************************)
(* Properties of the handlers of a stage                                   *)
(***************************************************************************)
\* the step is the handler op, run to its end or to its exception
StepOf(op) == last'.op = op /\ vars' # vars

\* C12: Record of the setpoint at index i writes entry i of the stage's
\* readback list and entry i of its measurement list, the readback being the
\* device's answer and the measurement the text typed, and leaves every
\* other entry and both lengths as they were
C12_RecordWritesEntryOnly ==
    [][ StepOf("record") =>
            LET i == last'.arg IN
            /\ Len(channel_readbacks') = Len(channel_readbacks)
            /\ Len(channel_measurements') = Len(channel_measurements)
            /\ \A k \in DOMAIN channel_readbacks \ {i} :
                /\ channel_readbacks'[k] = channel_readbacks[k]
                /\ channel_measurements'[k] = channel_measurements[k]
            /\ last'.exc = "none" =>
                /\ channel_readbacks'[i] = device.target[channel]
                /\ channel_measurements'[i] \in MeasurementTexts
      ]_vars

\* setpoint 2 was recorded as the fourth operation of the stage, setpoint 1
\* was skipped
C12_Witness ==
    /\ last.op = "record" /\ last.arg = 2 /\ last.exc = "none"
    /\ ops = 4
    /\ channel_measurements[2] = "101.2"
    /\ channel_measurements[1] = "unmeasured"
    /\ channel_readbacks[2] # "unmeasured"

\* C13: Disable control leaves the stage's output disabled and its channel's
\* target at zero, and changes neither the stage index nor any readback or
\* measurement entry
C13_DisableZeroes ==
    /\ []((last.op = "disable" /\ last.exc = "none") =>
            IF channel = "SL"
            THEN ~device.sol /\ device.target["SL"] = ZeroCurrent
            ELSE ~device.hv /\ device.target[channel] = ZeroVoltage)
    /\ [][ StepOf("disable") =>
            UNCHANGED <<current_stage_index, channel, channel_readbacks,
                        channel_measurements, readbacks, measurements>> ]_vars

\* C14: after Trigger(i) followed by Disable control, without a Record, the
\* test button of every setpoint of the stage is enabled: Trigger(j) is
\* possible for every j
C14_DisableReleases ==
    [][ (last.op = "trigger" /\ last.exc = "none"
            /\ StepOf("disable") /\ last'.exc = "none")
        => buttons_enabled' = StageButtons(channel') ]_vars

\* the channels the client was built with
ClientInstalled == Range(hvps.occupied_channels)

\* C15: set_voltage, get_voltage and get_current of a channel that is not
\* installed raise the invalid-channel error, hand nothing to the socket and
\* do not take the lock
C15_InvalidChannelBeforeIO ==
    (api.call \in {"set_voltage", "get_voltage", "get_current"}
        /\ api.ch \notin ClientInstalled)
        => /\ api.exc = "ValueError" /\ api.err = InvalidChannel
           /\ api.sent = <<>>
           /\ api.locks = 0
           /\ api.ret = ""

\* get_current of BM on a client built with SL and L2 only, its socket bound
C15_Witness ==
    /\ api.call = "get_current" /\ api.ch = "BM"
    /\ hvps.occupied_channels = <<"SL", "L2">> /\ hvps.sock
    /\ api.exc = "ValueError" /\ api.sent = <<>> /\ api.locks = 0

\* C16 as stated: set_voltage('SL', v) raises the invalid-operation error and
\* sends nothing, whether or not SL is installed
C16_AlwaysInvalidOperation ==
    (api.call = "set_voltage" /\ api.ch = "SL")
        => /\ api.exc = "ValueError" /\ api.err = InvalidOperation
           /\ api.sent = <<>>

\* C16: set_voltage('SL', v) raises ValueError and sends nothing for every v
\* and every installed list; the error is the invalid-operation one when SL is
\* installed and the invalid-channel one when it is not
C16_SolenoidVoltageRefused ==
    (api.call = "set_voltage" /\ api.ch = "SL")
        => /\ api.exc = "ValueError"
           /\ api.err = (IF "SL" \in ClientInstalled THEN InvalidOperation
                         ELSE InvalidChannel)
           /\ api.sent = <<>>
           /\ api.locks = 0

\* set_voltage('SL', '-500') on a client with SL installed and a socket
C16_Witness ==
    /\ api.call = "set_voltage" /\ api.ch = "SL" /\ api.arg = "-500"
    /\ "SL" \in ClientInstalled /\ hvps.sock
    /\ api.exc = "ValueError" /\ api.err = InvalidOperation
    /\ api.sent = <<>>

\* C17: send_query raises ConnectionError when the client has no socket
\* (nothing is written, the lock is not taken) and when sendall or recv
\* fails; in these cases the caller gets no response and the request was
\* handed to the socket at most once
C17_QueryFailsWithConnectionError ==
    (api.call = "send_query" /\ (~hvps.sock \/ api.failAt # NoFailure))
        => /\ api.exc = "ConnectionError"
           /\ api.ret = ""
           /\ Len(api.sent) <= 1
           /\ ~hvps.sock => (api.sent = <<>> /\ api.locks = 0
                                /\ api.err = NotConnected)
           /\ hvps.sock => (Len(api.sent) = 1 /\ api.locks = 1
                               /\ api.err = SocketError)

\* send_query('RDSTA') on a connected client whose recv fails
C17_Witness ==
    /\ api.call = "send_query" /\ api.arg = "RDSTA" /\ hvps.sock
    /\ api.failAt = <<1, "read">>
    /\ api.exc = "ConnectionError"
    /\ api.sent = <<"RDSTA\n">>

\* the step is an operation that ended with a transport error
FailedStep == last'.exc = "ConnectionError" /\ vars' # vars

\* the entries of the stage's lists that a Record has written
RecordedSlots == { i \in DOMAIN channel_measurements :
                      channel_measurements[i] \in MeasurementTexts }

\* the entries of the session dictionaries that a Record has written
RecordedKeys == { <<c, i>> \in Channels \X (1..VoltageSlots) :
                    /\ i \in DOMAIN measurements[c]
                    /\ measurements[c][i] \in MeasurementTexts }

\* C18 as stated: after an operation that ended with a transport error, every
\* recorded entry of the stage's lists and of the dictionaries is as before
C18_RecordedEntriesUnchanged ==
    [][ FailedStep =>
            /\ \A i \in RecordedSlots :
                /\ channel_measurements'[i] = channel_measurements[i]
                /\ channel_readbacks'[i] = channel_readbacks[i]
            /\ \A k \in RecordedKeys :
                /\ measurements'[k[1]][k[2]] = measurements[k[1]][k[2]]
                /\ readbacks'[k[1]][k[2]] = readbacks[k[1]][k[2]]
      ]_vars

\* the last operation was a Trigger or a Record that ended with a transport
\* error
FailedSetpoint ==
    last.op \in {"trigger", "record"} /\ last.exc = "ConnectionError"

\* C19: after a Trigger(i) or Record(i) that ended with a transport error
\* the window is still open and Trigger(i) can be pressed again, and closing
\* the window then, without a further transport error, ends with both
\* outputs disabled
C19_RetryOrCleanClose ==
    /\ [](FailedSetpoint => (window = "open" /\ last.arg \in buttons_enabled))
    /\ [][ (FailedSetpoint /\ StepOf("close") /\ last'.exc # "ConnectionError")
              => (~device'.hv /\ ~device'.sol) ]_vars

\* C20: the decoder maps STATE0000 to (hv off, solenoid off), STATE0001 to
\* (hv on, solenoid off), STATE0010 to (hv off, solenoid on) and STATE0011 to
\* (hv on, solenoid on): the hv flag is the last digit, the solenoid flag the
\* digit before it, each whatever the other digit is
C20_FlagsByOwnBit ==
    (api.call = "get_enable_state" /\ api.exc = "none")
        => /\ api.ret \in {"STATE0000", "STATE0001", "STATE0010", "STATE0011"}
           /\ api.ret = "STATE0000" => (~api.hv /\ ~api.sol)
           /\ api.ret = "STATE0001" => (api.hv /\ ~api.sol)
           /\ api.ret = "STATE0010" => (~api.hv /\ api.sol)
           /\ api.ret = "STATE0011" => (api.hv /\ api.sol)
           /\ api.hv = (SubSeq(api.ret, 9, 9) = "1")
           /\ api.sol = (SubSeq(api.ret, 8, 8) = "1")
           /\ api.hv = device.hv /\ api.sol = device.sol

\* the device answered STATE0010: solenoid on, high voltage off
C20_Witness ==
    /\ api.call = "get_enable_state" /\ api.exc = "none"
    /\ api.ret = "STATE0010" /\ ~api.hv /\ api.sol

\* the text is an optional sign followed by one to five digits, or is empty
IsVoltageText(v) ==
    LET signed == Len(v) > 0 /\ CharAt(v, 1) \in {"+", "-"}
        first == IF signed THEN 2 ELSE 1
    IN  \/ v = ""
        \/ /\ Len(v) - first + 1 \in 1..5
           /\ \A k \in first..Len(v) : CharAt(v, k) \in DecimalDigits

\* the sign of the text, '+' when it has none
SignOf(v) == IF Len(v) > 0 /\ CharAt(v, 1) = "-" THEN "-" ELSE "+"

\* the digits of the text, "0" for the empty text
MagnitudeOf(v) ==
    IF v = "" THEN "0"
    ELSE IF CharAt(v, 1) \in {"+", "-"} THEN SubSeq(v, 2, Len(v)) ELSE v

\* C21: for an installed voltage channel and a text of an optional sign and
\* one to five digits, set_voltage sends exactly ST{channel}T, the sign ('+'
\* when none is given) and the digits padded with zeros to five; the empty
\* text is sent as +00000
C21_VoltageCommand ==
    (api.call = "set_voltage" /\ api.ch \in ClientInstalled \ {"SL"}
        /\ IsVoltageText(api.arg))
        => LET m == MagnitudeOf(api.arg)
               field == Zeros(5 - Len(m)) \o m
           IN  /\ api.exc = "none"
               /\ Len(field) = 5
               /\ \A k \in 1..5 : CharAt(field, k) \in DecimalDigits
               /\ api.sent = << "ST" \o api.ch \o "T" \o SignOf(api.arg)
                                   \o field \o "\n" >>
               /\ api.arg = "" => api.sent = << "ST" \o api.ch \o "T+00000\n" >>

\* set_voltage('BM', '-1000') sent STBMT-01000
C21_Witness ==
    /\ api.call = "set_voltage" /\ api.ch = "BM" /\ api.arg = "-1000"
    /\ api.sent = <<"STBMT-01000\n">>

\* the current with exactly two decimal places
TwoDecimals(c) ==
    CASE c = "" -> "0.00"
      [] c = "0" -> "0.00"
      [] c = "0.3" -> "0.30"
      [] c = "1.2" -> "1.20"
      [] c = "2.5" -> "2.50"

\* C22: with SL installed, set_solenoid_current sends STSLT00 followed by the
\* current with exactly two decimal places, for 0, 0.3, 1.2 and 2.5, and the
\* empty text is sent as 0.00
C22_SolenoidCommand ==
    (api.call = "set_solenoid_current" /\ "SL" \in ClientInstalled)
        => /\ api.exc = "none"
           /\ api.sent = << "STSLT00" \o TwoDecimals(api.arg) \o "\n" >>
           /\ Len(api.sent[1]) = Len("STSLT000.00\n")

\* set_solenoid_current('1.2') sent STSLT001.20
C22_Witness ==
    /\ api.call = "set_solenoid_current" /\ api.arg = "1.2"
    /\ "SL" \in ClientInstalled
    /\ api.sent = <<"STSLT001.20\n">>

\* C23: enable_wobble and disable_wobble naming BM or SL are rejected and send
\* nothing, whether or not BM or SL is installed
C23_WobbleRefusedForBMandSL ==
    (api.call \in {"enable_wobble", "disable_wobble"} /\ api.ch \in {"BM", "SL"})
        => (api.exc = "ValueError" /\ api.sent = <<>>)

\* C24: whatever the command, a NAK code comes back to the caller as an
\* ordinary string and the operation that issued the command goes on with
\* its remaining steps: no exception, and the poll queries every channel
C24_NakIsSuccess ==
    (device.nak \in NAKS /\ api.call # "none" /\ api.sent # <<>>)
        => /\ api.exc = "none"
           /\ api.ret = device.nak
           /\ api.call = "update_readings"
                => Len(api.sent) = 2 * Len(all_channels)

\* C25: return pressed in a target entry of the control panel sets the
\* channel's target: a voltage entry sends the set-voltage command of its
\* channel, the solenoid entry the set-solenoid-current command with the
\* current typed
C25_ReturnSetsTarget ==
    api.call = "return_pressed"
        => /\ api.exc = "none"
           /\ api.ch # "SL" =>
                api.sent = << "ST" \o api.ch \o "T" \o SignOf(api.arg)
                                \o Zeros(5 - Len(MagnitudeOf(api.arg)))
                                \o MagnitudeOf(api.arg) \o "\n" >>
           /\ api.ch = "SL" =>
                api.sent = << "STSLT00" \o TwoDecimals(api.arg) \o "\n" >>

\* the request lines of a Record on the stage of channel c, in order
RecordLines(c) ==
    IF c = "SL" THEN <<"RDSLC\n", "STSLT000.00\n", "STSL0\n">>
    ELSE <<"RD" \o c \o "V\n", "ST" \o c \o "T+00000\n", "STHV0\n">>

IsPrefix(p, q) == Len(p) <= Len(q) /\ SubSeq(q, 1, Len(p)) = p

\* C26: Record sends, in this order, the readback request of the stage's
\* channel, the command that sets the target to zero and the command that
\* disables the stage's output (a Record cut short by a transport error has
\* sent a prefix of these); after a completed Record the target is zero, the
\* output is disabled, the entry holds the measurement and every test button
\* of the stage is enabled
C26_RecordSequence ==
    last.op = "record"
        => /\ IsPrefix(sent, RecordLines(channel))
           /\ last.exc = "none" =>
                /\ sent = RecordLines(channel)
                /\ device.target[channel] =
                       (IF channel = "SL" THEN ZeroCurrent ELSE ZeroVoltage)
                /\ IF channel = "SL" THEN ~device.sol ELSE ~device.hv
                /\ channel_measurements[last.arg] \in MeasurementTexts
                /\ last.arg \notin entries_enabled
                /\ buttons_enabled = StageButtons(channel)

\* a Record completed on the BM stage
C26_Witness ==
    /\ last.op = "record" /\ last.exc = "none" /\ channel = "BM"
    /\ sent = <<"RDBMV\n", "STBMT+00000\n", "STHV0\n">>
    /\ buttons_enabled = 1..6

\* the set command of the test button i on the stage of channel c
TriggerSetLine(c, i) ==
    IF c = "SL" THEN "STSLT00" \o TwoDecimals(test_currents[i]) \o "\n"
    ELSE "ST" \o c \o "T" \o SignOf(TestVoltage(i))
            \o Zeros(5 - Len(MagnitudeOf(TestVoltage(i))))
            \o MagnitudeOf(TestVoltage(i)) \o "\n"

\* the request lines of a Trigger, the stage's output being enabled or not
TriggerLines(c, i, enabled) ==
    <<"RDSTA\n">>
        \o (IF enabled THEN <<>>
            ELSE IF c = "SL" THEN <<"STSL1\n">> ELSE <<"STHV1\n">>)
        \o <<TriggerSetLine(c, i)>>

\* C27: Trigger of setpoint i sends the state query first, then the enable
\* command of the stage's output exactly when the device reported it not
\* enabled, then the set command with the value of setpoint i (a Trigger cut
\* short by a transport error has sent a prefix of these); when the set
\* command was sent, the stage's output is enabled
C27_TriggerSequence ==
    [][ StepOf("trigger") =>
            LET enabled == IF channel = "SL" THEN device.sol ELSE device.hv
                lines == TriggerLines(channel, last'.arg, enabled)
            IN  /\ IsPrefix(sent', lines)
                /\ last'.exc = "none" => sent' = lines
                /\ Len(sent') = Len(lines) =>
                       IF channel = "SL" THEN device'.sol ELSE device'.hv
      ]_vars

\* a Trigger on the SL stage found the solenoid disabled and enabled it
C27_Witness ==
    /\ last.op = "trigger" /\ last.exc = "none" /\ channel = "SL"
    /\ sent = <<"RDSTA\n", "STSL1\n", "STSLT000.30\n">>
    /\ device.sol

\* a stage was just entered: by the constructor or by a Next that completed
StageEntered ==
    /\ window = "open"
    /\ last.op \in {"init", "next"} /\ last.exc = "none"
    /\ current_stage_index < Len(test_stages)

\* C28: when a stage was entered, the stage's buffers hold nothing but
\* 'unmeasured', their length is the number of setpoints of the stage entered
\* (6 for a voltage channel, 3 for SL) and no entry awaits a measurement
C28_FreshBuffersOnEntry ==
    StageEntered
        => /\ Len(channel_readbacks) = Cardinality(StageButtons(channel))
           /\ Len(channel_measurements) = Cardinality(StageButtons(channel))
           /\ \A k \in DOMAIN channel_readbacks :
                  channel_readbacks[k] = "unmeasured"
           /\ \A k \in DOMAIN channel_measurements :
                  channel_measurements[k] = "unmeasured"
           /\ entries_enabled = {}

\* the channels of the stages that Next has left
StoredChannels == { test_stages[k] : k \in 1..current_stage_index }

\* C29: a Next that leaves the stage of channel c puts the stage's buffers, as
\* they were before the Next, under c in both dictionaries and leaves the
\* other channels' entries as they were; no other operation writes to the
\* dictionaries, and the entries of a channel whose stage was left never
\* change again
C29_NextStoresStage ==
    /\ [][ (StepOf("next") /\ current_stage_index' = current_stage_index + 1)
              => /\ readbacks' = [readbacks EXCEPT ![channel] = channel_readbacks]
                 /\ measurements' =
                        [measurements EXCEPT ![channel] = channel_measurements]
         ]_vars
    /\ [][ (\A c \in StoredChannels :
                /\ readbacks'[c] = readbacks[c]
                /\ measurements'[c] = measurements[c])
           /\ (current_stage_index' = current_stage_index
                 => UNCHANGED <<readbacks, measurements>>)
         ]_vars

\* a measurement was recorded on the second stage, the first stage's
\* measurement being in the dictionary
C29_Witness ==
    /\ current_stage_index = 1
    /\ last.op = "record" /\ last.exc = "none"
    /\ \E k \in DOMAIN measurements[test_stages[1]] :
          measurements[test_stages[1]][k] \in MeasurementTexts

\* C30: Back changes nothing: the stage index, the stage's buffers, both
\* dictionaries, the entries awaiting a measurement, the test buttons and the
\* device are as before, and no request is sent
C30_BackChangesNothing ==
    [][ StepOf("back") =>
            /\ UNCHANGED <<current_stage_index, channel, test_stages,
                           channel_readbacks, channel_measurements,
                           readbacks, measurements, entries_enabled,
                           buttons_enabled, window, test_complete, device>>
            /\ sent' = <<>>
            /\ last'.exc = "none"
      ]_vars

\* Back was pressed on the second stage while an entry awaited its measurement
C30_Witness ==
    /\ last.op = "back"
    /\ current_stage_index = 1
    /\ entries_enabled # {}

\* the target the device holds after the set command of the test button i
SetpointTarget(c, i) ==
    SubSeq(TriggerSetLine(c, i), 6, Len(TriggerSetLine(c, i)) - 1)

\* C31: a Record that stores a readback at index i finds the stage's output
\* enabled and the channel's target at the value of setpoint i: nothing was
\* zeroed, disabled or set to another setpoint since Trigger(i) (sessions
\* without a transport error)
C31_ReadbackUnderSetpoint ==
    [][ (StepOf("record") /\ last'.exc = "none" /\ faults' = 0)
            => /\ IF channel = "SL" THEN device.sol ELSE device.hv
               /\ device.target[channel] = SetpointTarget(channel, last'.arg)
               /\ channel_readbacks'[last'.arg]
                      = SetpointTarget(channel, last'.arg)
      ]_vars

\* C32: the measurement entries are all disabled when a stage is entered; the
\* entry of setpoint i is enabled by Trigger(i) and by nothing else; a Record
\* acts on an enabled entry only, and once it has stored its readback the
\* entry is disabled again, so that another Record(i) needs another Trigger(i)
C32_RecordNeedsTrigger ==
    /\ [](StageEntered => entries_enabled = {})
    /\ [][ \A i \in entries_enabled' \ entries_enabled :
               StepOf("trigger") /\ last'.arg = i ]_vars
    /\ [][ StepOf("record") =>
               /\ last'.arg \in entries_enabled
               /\ (last'.exc = "none" \/ Len(sent') > 1)
                     => last'.arg \notin entries_enabled' ]_vars

\* Record(1) has stored its readback and disabled its entry, while the entry
\* of setpoint 2, triggered before, is still enabled
C32_Witness ==
    /\ last.op = "record" /\ last.arg = 1 /\ last.exc = "none"
    /\ channel_measurements[1] \in MeasurementTexts
    /\ entries_enabled = {2}

\* C33: the stage index is 0 after construction and never exceeds the number
\* of stages; it changes only in a Next, by exactly one, so no operation
\* returns to an earlier stage; while the window is open the channel under
\* test is the plan's channel at the stage index
C33_StageIndexAdvancesByOne ==
    /\ [](last.op = "init" => current_stage_index = 0)
    /\ [](current_stage_index \in 0..Len(test_stages))
    /\ [](Running => /\ current_stage_index < Len(test_stages)
                     /\ channel = test_stages[current_stage_index + 1])
    /\ [][ current_stage_index' # current_stage_index
              => /\ StepOf("next")
                 /\ current_stage_index' = current_stage_index + 1 ]_vars

\* Next has entered the second stage of a plan
C33_Witness ==
    /\ Running /\ last.op = "next" /\ last.exc = "none"
    /\ current_stage_index = 1
    /\ channel = test_stages[2]

\* C34: in the emitted data the lists of a channel that is not installed are
\* the 'N/A' lists; in the lists of an installed channel every measurement is
\* a text typed at a Record or 'unmeasured', and the readback at the same
\* index is a device answer exactly when the measurement is a typed text;
\* the Next that emits takes the last stage's buffers as they are, so the
\* setpoints never recorded, and only they, read 'unmeasured'
C34_EmittedEntries ==
    /\ [](Emitted =>
            \A c \in Channels :
                LET rb == test_complete[1][1][c]
                    ms == test_complete[1][2][c]
                IN  IF c \notin Installed
                    THEN rb = NotApplicable(c) /\ ms = NotApplicable(c)
                    ELSE /\ DOMAIN rb = DOMAIN ms
                         /\ \A k \in DOMAIN ms :
                              /\ ms[k] \in MeasurementTexts \cup {"unmeasured"}
                              /\ rb[k] # "N/A"
                              /\ (rb[k] = "unmeasured") <=> (ms[k] = "unmeasured"))
    /\ [][ (test_complete' # test_complete /\ StepOf("next"))
              => /\ test_complete'[1][1][channel] = channel_readbacks
                 /\ test_complete'[1][2][channel] = channel_measurements
                 /\ \A c \in Channels \ {channel} :
                        /\ test_complete'[1][1][c] = readbacks[c]
                        /\ test_complete'[1][2][c] = measurements[c] ]_vars

\* a session was completed with one setpoint of its last stage recorded and
\* the others not
C34_Witness ==
    /\ Emitted /\ last.op = "next" /\ Len(test_stages) >= 1
    /\ LET c == test_stages[Len(test_stages)]
       IN  /\ test_complete[1][2][c][1] \in MeasurementTexts
           /\ test_complete[1][2][c][2] = "unmeasured"
           /\ test_complete[1][1][c][2] = "unmeasured"

StateStrings == {"STATE0000", "STATE0001", "STATE0010", "STATE0011"}

\* C35: on a state response that is none of the four state strings, a NAK
\* code included, get_hv_enable_state and get_sol_enable_state both return
\* True; the decoders raise nothing
C35_OtherResponsesReadEnabled ==
    api.call = "get_enable_state"
        => /\ api.exc = "none"
           /\ api.ret \notin StateStrings => (api.hv /\ api.sol)

\* the device answered the state query with NAK3
C35_Witness ==
    /\ api.call = "get_enable_state" /\ api.ret = "NAK3"
    /\ device.nak = "NAK3"
    /\ api.sent = <<"RDSTA\n", "RDSTA\n">>
    /\ api.hv /\ api.sol

\* C36: a transport error at any step of Next (a state query, a disable
\* command or a zero command) leaves the stage where it was: the index, the
\* stage's buffers and both dictionaries are unchanged, the same stage stays
\* active and Next can be pressed again
C36_FailedNextDoesNotAdvance ==
    [][ (StepOf("next") /\ last'.exc = "ConnectionError")
            => /\ UNCHANGED <<current_stage_index, channel, channel_readbacks,
                              channel_measurements, readbacks, measurements>>
               /\ window' = "open" ]_vars

\* the call of t ended with ConnectionError in this step
QueryFailed(t) ==
    /\ pc[t] \in {"sendall", "recv"} /\ pc'[t] = "idle"
    /\ result'[t].kind = "ConnectionError"

\* C37: a send_query whose write or read fails leaves the transport lock
\* free: the lock is never held while its holder has no transaction in
\* progress, a call leaves its wait for the lock only by taking it, and no
\* call, also after another call's failure, waits for the lock for ever
C37_LockFreeAfterFailure ==
    /\ [](lock \in Threads => InTransaction(lock))
    /\ [][ \A t \in Threads :
            /\ QueryFailed(t) => (lock = t /\ lock' = "free")
            /\ (pc[t] = "lock" /\ pc'[t] # "lock")
                    => (lock = "free" /\ lock' = t /\ pc'[t] = "sendall") ]_vars
    /\ <>[](\A t \in Threads : pc[t] # "lock")

\* the GUI thread's call failed and the poller's call has taken the lock
C37_Witness ==
    /\ result["gui"].kind = "ConnectionError" /\ pc["gui"] = "idle"
    /\ sockFaults = 1
    /\ lock = "poller" /\ pc["poller"] = "sendall"

\* C38: once the main window has closed the socket during shutdown no
\* query is issued on it: update_readings never runs a send_query on the
\* closed socket, and the socket is closed only once the worker has stopped
C38_NoQueryOnClosedSocket ==
    /\ app.closed_queries = 0
    /\ app.sock = "closed" => (app.stopped /\ app.thread = "finished")

====
